---- MODULE Spec2Model ----
(***************************************************************************)
(* Model of ml_pipelines/training/pipeline.py (abalone pipeline).          *)
(*                                                                         *)
(* Part 1: get_pipeline, stage by stage, with the exceptions each stage    *)
(*         can raise.  The locals of the function are the variables.       *)
(* Part 2: the execution of the returned graph by the Execution Backend,   *)
(*         generic over the graph that get_pipeline returned.              *)
(***************************************************************************)
EXTENDS Integers, Sequences, FiniteSets, TLC

\* ------------------------------------------------------------------------
\* Bounds
\* ------------------------------------------------------------------------
\* mse values are fixed-point numbers, MseScale units per 1.0, so that
\* 6.0000001 is Threshold + 1.
MseScale == 10^7

\* how many grid points on each side of the threshold the evaluation
\* report may hold
MaxMseSteps == 1

\* ------------------------------------------------------------------------
\* Inputs of get_pipeline and outcomes of its collaborators
\* ------------------------------------------------------------------------
None == "None"

Regions == {"us-east-1", "eu-west-1"}

Roles == {None, "arn:aws:iam::role/given"}

\* describe_image_version: the image exists, ResourceNotFound, any other error
LookupOutcomes == {"Found", "ResourceNotFound", "ClientError"}

ImageKinds == {"processing", "training", "inference"}

\* ------------------------------------------------------------------------
\* Values
\* ------------------------------------------------------------------------
NoStep == [name |-> None]

NoPipeline == [name |-> None]

NoImage == [framework |-> None]

NoMetrics == [kind |-> None, step |-> None, name |-> None]

\* a binding of a step argument: a pipeline Parameter, a property of another
\* step (a deferred value), or a literal
ParamRef(p) == [kind |-> "Parameter", step |-> None, name |-> p.name]

PropertyRef(step, prop) == [kind |-> "Property", step |-> step.name, name |-> prop]

Literal(v) == [kind |-> "Literal", step |-> None, name |-> v]

Range(f) == {f[k] : k \in DOMAIN f}

SeqToSet(s) == {s[i] : i \in 1..Len(s)}

\* ------------------------------------------------------------------------
\* Parameters for pipeline execution
\* ------------------------------------------------------------------------
processing_instance_count ==
    [name |-> "ProcessingInstanceCount", type |-> "Integer", default_value |-> <<"1">>]

processing_instance_type ==
    [name |-> "ProcessingInstanceType", type |-> "String", default_value |-> <<"ml.m5.xlarge">>]

training_instance_type ==
    [name |-> "TrainingInstanceType", type |-> "String", default_value |-> <<"ml.m5.xlarge">>]

inference_instance_type ==
    [name |-> "InferenceInstanceType", type |-> "String", default_value |-> <<"ml.m5.xlarge">>]

model_approval_status ==
    [name |-> "ModelApprovalStatus", type |-> "String", default_value |-> <<"PendingManualApproval">>]

input_data(region) ==
    [name |-> "InputDataUrl", type |-> "String",
     default_value |-> <<"s3://sagemaker-servicecatalog-seedcode-", region,
                         "/dataset/abalone-dataset.csv">>]

\* ------------------------------------------------------------------------
\* Image resolution
\* ------------------------------------------------------------------------
\* the image a successful describe_image_version returns for an image name
ContainerImage(kind) ==
    [framework |-> "custom", region |-> None, version |-> kind,
     py_version |-> None, instance_type |-> None]

\* sagemaker.image_uris.retrieve(framework, region, version, py_version, instance_type)
retrieve(framework, region, version, py_version, instance_type) ==
    [framework |-> framework, region |-> region, version |-> version,
     py_version |-> py_version, instance_type |-> instance_type]

processing_image_uri_of(outcome, region) ==
    IF outcome = "Found" THEN ContainerImage("processing")
    ELSE retrieve("xgboost", region, "1.0-1", "py3", "ml.m5.xlarge")

training_image_uri_of(outcome, region) ==
    IF outcome = "Found" THEN ContainerImage("training")
    ELSE retrieve("xgboost", region, "1.0-1", "py3", "ml.m5.xlarge")

\* a faulty variant: another fallback version for the inference image
inference_image_uri_bad(outcome, region) ==
    IF outcome = "Found" THEN ContainerImage("inference")
    ELSE retrieve("xgboost", region, "latest", "py3", "ml.m5.xlarge")

inference_image_uri_of(outcome, region) ==
    IF outcome = "Found" THEN ContainerImage("inference")
    ELSE retrieve("xgboost", region, "1.0-1", "py3", "ml.m5.xlarge")

\* ------------------------------------------------------------------------
\* Steps (the constructors get_pipeline calls, with the arguments it passes)
\* ------------------------------------------------------------------------
\* a faulty variant: the processing step reads an output of the evaluation step
PreprocessAbaloneDataCyclic(image_uri, role, region) ==
    [name |-> "PreprocessAbaloneData",
     type |-> "Processing",
     image_uri |-> image_uri,
     role |-> role,
     arguments |-> [instance_type  |-> ParamRef(processing_instance_type),
                    instance_count |-> ParamRef(processing_instance_count),
                    job_arguments  |-> PropertyRef([name |-> "EvaluateAbaloneModel"],
                                                   "evaluation")],
     outputs |-> {"train", "validation", "test"},
     property_files |-> {}]

\* ProcessingStep(name="PreprocessAbaloneData", ...)
PreprocessAbaloneData(image_uri, role, region) ==
    [name |-> "PreprocessAbaloneData",
     type |-> "Processing",
     image_uri |-> image_uri,
     role |-> role,
     arguments |-> [instance_type  |-> ParamRef(processing_instance_type),
                    instance_count |-> ParamRef(processing_instance_count),
                    job_arguments  |-> ParamRef(input_data(region))],
     outputs |-> {"train", "validation", "test"},
     property_files |-> {}]

\* a faulty variant: the training channel is a literal location, not a property
\* of the processing step
TrainAbaloneModelNoRef(image_uri, role, step_process) ==
    [name |-> "TrainAbaloneModel",
     type |-> "Training",
     image_uri |-> image_uri,
     role |-> role,
     arguments |-> [instance_type |-> ParamRef(training_instance_type),
                    train         |-> Literal("s3://bucket/train"),
                    validation    |-> Literal("s3://bucket/validation")],
     outputs |-> {"ModelArtifacts"},
     property_files |-> {}]

\* TrainingStep(name="TrainAbaloneModel", ...)
TrainAbaloneModel(image_uri, role, step_process) ==
    [name |-> "TrainAbaloneModel",
     type |-> "Training",
     image_uri |-> image_uri,
     role |-> role,
     arguments |-> [instance_type |-> ParamRef(training_instance_type),
                    train         |-> PropertyRef(step_process, "train"),
                    validation    |-> PropertyRef(step_process, "validation")],
     outputs |-> {"ModelArtifacts"},
     property_files |-> {}]

\* PropertyFile(name="AbaloneEvaluationReport", output_name="evaluation", path="evaluation.json")
evaluation_report ==
    [name |-> "AbaloneEvaluationReport", output_name |-> "evaluation",
     path |-> "evaluation.json"]

\* ProcessingStep(name="EvaluateAbaloneModel", ...); it runs under the
\* training image
EvaluateAbaloneModel(image_uri, role, step_process, step_train) ==
    [name |-> "EvaluateAbaloneModel",
     type |-> "Processing",
     image_uri |-> image_uri,
     role |-> role,
     arguments |-> [instance_type |-> ParamRef(processing_instance_type),
                    model         |-> PropertyRef(step_train, "ModelArtifacts"),
                    test          |-> PropertyRef(step_process, "test")],
     outputs |-> {"evaluation"},
     property_files |-> {evaluation_report}]

\* ModelMetrics: the location is read out of step_eval.arguments while the
\* graph is built, so it is a literal and not a property of step_eval
model_metrics_of(step_eval) ==
    Literal("evaluation.json")

\* RegisterModel(name="RegisterAbaloneModel", ...)
RegisterAbaloneModel(image_uri, step_train, metrics) ==
    [name |-> "RegisterAbaloneModel",
     type |-> "RegisterModel",
     image_uri |-> image_uri,
     role |-> step_train.role,
     arguments |-> [model_data      |-> PropertyRef(step_train, "ModelArtifacts"),
                    approval_status |-> ParamRef(model_approval_status),
                    model_metrics   |-> metrics],
     outputs |-> {"ModelPackage"},
     property_files |-> {}]

\* JsonGet(step_name, property_file, json_path)
JsonGet(step_name, property_file, json_path) ==
    [step_name |-> step_name, property_file |-> property_file.name,
     json_path |-> json_path]

\* a faulty variant: a strict comparison
cond_lt(step_eval) ==
    [type  |-> "LessThan",
     left  |-> JsonGet(step_eval.name, evaluation_report, "regression_metrics.mse.value"),
     right |-> 6 * MseScale]

\* ConditionLessThanOrEqualTo(left=JsonGet(...), right=6.0)
cond_lte(step_eval) ==
    [type  |-> "LessThanOrEqualTo",
     left  |-> JsonGet(step_eval.name, evaluation_report, "regression_metrics.mse.value"),
     right |-> 6 * MseScale]

\* a faulty variant: the register step sits in both branches
CheckMSEAbaloneEvaluationBoth(step_eval, step_register) ==
    [name |-> "CheckMSEAbaloneEvaluation",
     type |-> "Condition",
     conditions |-> <<cond_lte(step_eval)>>,
     if_steps |-> <<step_register>>,
     else_steps |-> <<step_register>>]

\* a faulty variant: the branches are swapped
CheckMSEAbaloneEvaluationSwapped(step_eval, step_register) ==
    [name |-> "CheckMSEAbaloneEvaluation",
     type |-> "Condition",
     conditions |-> <<cond_lte(step_eval)>>,
     if_steps |-> <<>>,
     else_steps |-> <<step_register>>]

\* ConditionStep(name="CheckMSEAbaloneEvaluation", ...)
CheckMSEAbaloneEvaluation(step_eval, step_register) ==
    [name |-> "CheckMSEAbaloneEvaluation",
     type |-> "Condition",
     conditions |-> <<cond_lte(step_eval)>>,
     if_steps |-> <<step_register>>,
     else_steps |-> <<>>]

\* a faulty variant: the input data parameter is left out of the list
PipelineParametersShort(region) ==
    << processing_instance_type,
       processing_instance_count,
       training_instance_type,
       model_approval_status >>

\* the parameters=[...] list handed to Pipeline
PipelineParameters(region) ==
    << processing_instance_type,
       processing_instance_count,
       training_instance_type,
       model_approval_status,
       input_data(region) >>

\* a faulty variant: the register step is also listed at the top level
PipelineStepsWithRegister(step_process, step_train, step_eval, step_register, step_cond) ==
    << step_process, step_train, step_eval, step_cond, step_register >>

\* the steps=[...] list handed to Pipeline
PipelineSteps(step_process, step_train, step_eval, step_register, step_cond) ==
    << step_process, step_train, step_eval, step_cond >>

\* Pipeline(name=pipeline_name, parameters=[...], steps=[...])
AbalonePipeline(region, steps) ==
    [name |-> "AbalonePipeline",
     parameters |-> PipelineParameters(region),
     steps |-> steps]

\* ------------------------------------------------------------------------
\* State
\* ------------------------------------------------------------------------
VARIABLES
    pc,                    \* the statement of get_pipeline that runs next
    region, role,          \* arguments of get_pipeline
    lookup,                \* outcome of each describe_image_version so far
    processing_image_uri, training_image_uri, inference_image_uri,
    step_process, step_train, step_eval, step_register, model_metrics, step_cond,
    result,                \* what the caller of get_pipeline holds
    exec,                  \* state of the pipeline execution
    status,                \* state of each node of the executed graph
    files,                 \* content of each property file of the graph
    branch                 \* branch each conditional step selected

buildVars == << pc, region, role, lookup,
                processing_image_uri, training_image_uri, inference_image_uri,
                step_process, step_train, step_eval, step_register, model_metrics, step_cond,
                result >>

execVars == << exec, status, files, branch >>

vars == << pc, region, role, lookup,
           processing_image_uri, training_image_uri, inference_image_uri,
           step_process, step_train, step_eval, step_register, model_metrics, step_cond,
           result, exec, status, files, branch >>

\* entry of get_pipeline: region and role are the caller's, the other
\* arguments keep their defaults; no local is assigned, nothing is returned
Init ==
    /\ pc = "get_session"
    /\ region \in Regions
    /\ role \in Roles
    /\ lookup = [k \in ImageKinds |-> "unset"]
    /\ processing_image_uri = NoImage
    /\ training_image_uri = NoImage
    /\ inference_image_uri = NoImage
    /\ step_process = NoStep
    /\ step_train = NoStep
    /\ step_eval = NoStep
    /\ step_register = NoStep
    /\ model_metrics = NoMetrics
    /\ step_cond = NoStep
    /\ result = NoPipeline
    /\ exec = "NotSubmitted"
    /\ status = << >>
    /\ files = << >>
    /\ branch = << >>

\* ------------------------------------------------------------------------
\* get_pipeline, statement by statement
\* ------------------------------------------------------------------------
\* an exception leaves get_pipeline: nothing is returned
Raise ==
    /\ pc' = "raised"
    /\ UNCHANGED << region, role, lookup,
                    processing_image_uri, training_image_uri, inference_image_uri,
                    step_process, step_train, step_eval, step_register, model_metrics, step_cond,
                    result >>

\* sagemaker_session = get_session(region, default_bucket)
GetSession ==
    /\ pc = "get_session"
    /\ \/ /\ pc' = "get_execution_role"
          /\ UNCHANGED << region, role, lookup,
                          processing_image_uri, training_image_uri, inference_image_uri,
                          step_process, step_train, step_eval, step_register, model_metrics, step_cond,
                          result >>
       \/ Raise
    /\ UNCHANGED execVars

\* if role is None: role = get_execution_role(sagemaker_session)
GetExecutionRole ==
    /\ pc = "get_execution_role"
    /\ \/ /\ role' = IF role = None THEN "arn:aws:iam::role/execution" ELSE role
          /\ pc' = "parameters"
          /\ UNCHANGED << region, lookup,
                          processing_image_uri, training_image_uri, inference_image_uri,
                          step_process, step_train, step_eval, step_register, model_metrics, step_cond,
                          result >>
       \/ /\ role = None
          /\ Raise
    /\ UNCHANGED execVars

\* network_config = NetworkConfig(...); the Parameters; the image names
DeclareParameters ==
    /\ pc = "parameters"
    /\ \/ /\ pc' = "processing_image"
          /\ UNCHANGED << region, role, lookup,
                          processing_image_uri, training_image_uri, inference_image_uri,
                          step_process, step_train, step_eval, step_register,
                          model_metrics, step_cond, result >>
       \/ Raise
    /\ UNCHANGED execVars

\* try: describe_image_version(processing_image_name)
\* except ResourceNotFound: image_uris.retrieve(...)
DescribeProcessingImage ==
    /\ pc = "processing_image"
    /\ \E outcome \in LookupOutcomes :
         /\ lookup' = [lookup EXCEPT !["processing"] = outcome]
         /\ IF outcome = "ClientError"
            THEN /\ pc' = "raised"
                 /\ UNCHANGED processing_image_uri
            ELSE /\ pc' = "step_process"
                 /\ processing_image_uri' = processing_image_uri_of(outcome, region)
    /\ UNCHANGED << region, role, training_image_uri, inference_image_uri,
                    step_process, step_train, step_eval, step_register, model_metrics, step_cond,
                    result >>
    /\ UNCHANGED execVars

\* script_processor = ScriptProcessor(...); step_process = ProcessingStep(...)
BuildStepProcess ==
    /\ pc = "step_process"
    /\ \/ /\ step_process' = PreprocessAbaloneData(processing_image_uri, role, region)
          /\ pc' = "training_image"
          /\ UNCHANGED << region, role, lookup,
                          processing_image_uri, training_image_uri, inference_image_uri,
                          step_train, step_eval, step_register, model_metrics, step_cond, result >>
       \/ Raise
    /\ UNCHANGED execVars

\* try: describe_image_version(training_image_name)
\* except ResourceNotFound: image_uris.retrieve(...)
DescribeTrainingImage ==
    /\ pc = "training_image"
    /\ \E outcome \in LookupOutcomes :
         /\ lookup' = [lookup EXCEPT !["training"] = outcome]
         /\ IF outcome = "ClientError"
            THEN /\ pc' = "raised"
                 /\ UNCHANGED training_image_uri
            ELSE /\ pc' = "step_train"
                 /\ training_image_uri' = training_image_uri_of(outcome, region)
    /\ UNCHANGED << region, role, processing_image_uri, inference_image_uri,
                    step_process, step_train, step_eval, step_register, model_metrics, step_cond,
                    result >>
    /\ UNCHANGED execVars

\* xgb_train = Estimator(...); step_train = TrainingStep(...)
BuildStepTrain ==
    /\ pc = "step_train"
    /\ \/ /\ step_train' = TrainAbaloneModel(training_image_uri, role, step_process)
          /\ pc' = "step_eval"
          /\ UNCHANGED << region, role, lookup,
                          processing_image_uri, training_image_uri, inference_image_uri,
                          step_process, step_eval, step_register, model_metrics, step_cond, result >>
       \/ Raise
    /\ UNCHANGED execVars

\* script_eval = ScriptProcessor(...); step_eval = ProcessingStep(...)
BuildStepEval ==
    /\ pc = "step_eval"
    /\ \/ /\ step_eval' = EvaluateAbaloneModel(training_image_uri, role,
                                               step_process, step_train)
          /\ pc' = "model_metrics"
          /\ UNCHANGED << region, role, lookup,
                          processing_image_uri, training_image_uri, inference_image_uri,
                          step_process, step_train, step_register, model_metrics, step_cond, result >>
       \/ Raise
    /\ UNCHANGED execVars

\* model_metrics = ModelMetrics(model_statistics=MetricsSource(...)); reads
\* step_eval.arguments, before the inference image is looked up
BuildModelMetrics ==
    /\ pc = "model_metrics"
    /\ \/ /\ model_metrics' = model_metrics_of(step_eval)
          /\ pc' = "inference_image"
          /\ UNCHANGED << region, role, lookup,
                          processing_image_uri, training_image_uri, inference_image_uri,
                          step_process, step_train, step_eval, step_register, step_cond,
                          result >>
       \/ Raise
    /\ UNCHANGED execVars

\* try: describe_image_version(inference_image_name)
\* except ResourceNotFound: image_uris.retrieve(...)
DescribeInferenceImage ==
    /\ pc = "inference_image"
    /\ \E outcome \in LookupOutcomes :
         /\ lookup' = [lookup EXCEPT !["inference"] = outcome]
         /\ IF outcome = "ClientError"
            THEN /\ pc' = "raised"
                 /\ UNCHANGED inference_image_uri
            ELSE /\ pc' = "step_register"
                 /\ inference_image_uri' = inference_image_uri_of(outcome, region)
    /\ UNCHANGED << region, role, processing_image_uri, training_image_uri,
                    step_process, step_train, step_eval, step_register, model_metrics, step_cond,
                    result >>
    /\ UNCHANGED execVars

\* step_register = RegisterModel(...)
BuildStepRegister ==
    /\ pc = "step_register"
    /\ \/ /\ step_register' = RegisterAbaloneModel(inference_image_uri, step_train, model_metrics)
          /\ pc' = "step_cond"
          /\ UNCHANGED << region, role, lookup, model_metrics,
                          processing_image_uri, training_image_uri, inference_image_uri,
                          step_process, step_train, step_eval, step_cond, result >>
       \/ Raise
    /\ UNCHANGED execVars

\* cond_lte = ConditionLessThanOrEqualTo(...); step_cond = ConditionStep(...)
BuildStepCond ==
    /\ pc = "step_cond"
    /\ \/ /\ step_cond' = CheckMSEAbaloneEvaluation(step_eval, step_register)
          /\ pc' = "pipeline"
          /\ UNCHANGED << region, role, lookup,
                          processing_image_uri, training_image_uri, inference_image_uri,
                          step_process, step_train, step_eval, step_register, model_metrics, result >>
       \/ Raise
    /\ UNCHANGED execVars

\* a faulty variant: a failure of the Pipeline constructor is swallowed and the
\* steps built so far, without the conditional step, are returned
BuildPipelinePartial ==
    /\ pc = "pipeline"
    /\ \/ /\ result' = AbalonePipeline(region,
                          PipelineSteps(step_process, step_train, step_eval,
                                        step_register, step_cond))
          /\ pc' = "returned"
       \/ /\ result' = AbalonePipeline(region, << step_process, step_train, step_eval >>)
          /\ pc' = "returned"
    /\ UNCHANGED << region, role, lookup,
                    processing_image_uri, training_image_uri, inference_image_uri,
                    step_process, step_train, step_eval, step_register, model_metrics, step_cond >>
    /\ UNCHANGED execVars

\* pipeline = Pipeline(...); return pipeline
BuildPipeline ==
    /\ pc = "pipeline"
    /\ \/ /\ result' = AbalonePipeline(region,
                          PipelineSteps(step_process, step_train, step_eval,
                                        step_register, step_cond))
          /\ pc' = "returned"
          /\ UNCHANGED << region, role, lookup,
                          processing_image_uri, training_image_uri, inference_image_uri,
                          step_process, step_train, step_eval, step_register, model_metrics, step_cond >>
       \/ Raise
    /\ UNCHANGED execVars

Build ==
    \/ GetSession
    \/ GetExecutionRole
    \/ DeclareParameters
    \/ DescribeProcessingImage
    \/ BuildStepProcess
    \/ DescribeTrainingImage
    \/ BuildStepTrain
    \/ BuildStepEval
    \/ BuildModelMetrics
    \/ DescribeInferenceImage
    \/ BuildStepRegister
    \/ BuildStepCond
    \/ BuildPipeline

\* ------------------------------------------------------------------------
\* The graph of a pipeline: nodes, references, edges
\* ------------------------------------------------------------------------
IsCondition(s) == s.type = "Condition"

TopLevelSteps(p) == SeqToSet(p.steps)

ConditionSteps(p) == {s \in TopLevelSteps(p) : IsCondition(s)}

IfSteps(c) == SeqToSet(c.if_steps)

ElseSteps(c) == SeqToSet(c.else_steps)

BranchSteps(p) == UNION {IfSteps(c) \cup ElseSteps(c) : c \in ConditionSteps(p)}

AllSteps(p) == TopLevelSteps(p) \cup BranchSteps(p)

Names(S) == {s.name : s \in S}

\* the steps whose outputs a step reads: the properties bound to its
\* arguments, or for a conditional step the operands of its conditions
StepRefs(s) ==
    IF IsCondition(s)
    THEN {s.conditions[i].left.step_name : i \in 1..Len(s.conditions)}
    ELSE {b.step : b \in {a \in Range(s.arguments) : a.kind = "Property"}}

\* the Parameters a step binds to
StepParams(s) ==
    IF IsCondition(s)
    THEN {}
    ELSE {b.name : b \in {a \in Range(s.arguments) : a.kind = "Parameter"}}

DataEdges(p) ==
    {e \in Names(AllSteps(p)) \X Names(TopLevelSteps(p)) :
        \E s \in TopLevelSteps(p) :
            ~IsCondition(s) /\ s.name = e[2] /\ e[1] \in StepRefs(s)}

ConditionEdges(p) ==
    {e \in Names(AllSteps(p)) \X Names(TopLevelSteps(p)) :
        \E s \in ConditionSteps(p) : s.name = e[2] /\ e[1] \in StepRefs(s)}

\* the steps a step depends on, directly or through other steps
RECURSIVE DepsWithin(_, _, _)
DepsWithin(p, S, k) ==
    IF k = 0
    THEN S
    ELSE DepsWithin(p,
                    S \cup UNION {StepRefs(s) : s \in {t \in AllSteps(p) : t.name \in S}},
                    k - 1)

TransitiveDeps(p, s) == DepsWithin(p, StepRefs(s), Cardinality(AllSteps(p)))

PropertyFileKeys(p) ==
    UNION {{<<s.name, f.name>> : f \in s.property_files} :
              s \in {t \in AllSteps(p) : ~IsCondition(t)}}

\* ------------------------------------------------------------------------
\* Property files and conditions at execution time
\* ------------------------------------------------------------------------
MsePath == "regression_metrics.mse.value"

MseValues == {0} \cup {6 * MseScale + d : d \in (0 - MaxMseSteps)..MaxMseSteps}

NotProduced == [produced |-> FALSE, json |-> {}]

\* what the owning step may leave behind: no file, a file without the
\* path, a file with a value at the path
FileContents ==
    {NotProduced, [produced |-> TRUE, json |-> {}]}
      \cup {[produced |-> TRUE, json |-> {<<MsePath, v>>}] : v \in MseValues}

\* JsonGet at execution time
CanExtract(get, fs) ==
    /\ <<get.step_name, get.property_file>> \in DOMAIN fs
    /\ fs[<<get.step_name, get.property_file>>].produced
    /\ \E e \in fs[<<get.step_name, get.property_file>>].json : e[1] = get.json_path

Extract(get, fs) ==
    (CHOOSE e \in fs[<<get.step_name, get.property_file>>].json :
        e[1] = get.json_path)[2]

ConditionHolds(cond, fs) ==
    CASE cond.type = "LessThanOrEqualTo" -> Extract(cond.left, fs) <= cond.right
      [] cond.type = "LessThan"          -> Extract(cond.left, fs) < cond.right
      [] OTHER                           -> FALSE

\* ------------------------------------------------------------------------
\* Execution of the returned graph
\* ------------------------------------------------------------------------
StepNamed(n) == CHOOSE s \in AllSteps(result) : s.name = n

RefsDone(s) == \A r \in StepRefs(s) : r \in DOMAIN status /\ status[r] = "Succeeded"

\* a branch step is eligible once its conditional step selected its branch
Eligible(s) ==
    \/ s \in TopLevelSteps(result)
    \/ \E c \in ConditionSteps(result) :
          \/ branch[c.name] = "if" /\ s \in IfSteps(c)
          \/ branch[c.name] = "else" /\ s \in ElseSteps(c)

Submit ==
    /\ pc = "returned"
    /\ exec = "NotSubmitted"
    /\ exec' = "Executing"
    /\ status' = [n \in Names(AllSteps(result)) |-> "Pending"]
    /\ files' = [k \in PropertyFileKeys(result) |-> NotProduced]
    /\ branch' = [n \in Names(ConditionSteps(result)) |-> "none"]
    /\ UNCHANGED buildVars

StartStep(n) ==
    /\ exec = "Executing"
    /\ ~IsCondition(StepNamed(n))
    /\ status[n] = "Pending"
    /\ Eligible(StepNamed(n))
    /\ RefsDone(StepNamed(n))
    /\ status' = [status EXCEPT ![n] = "Executing"]
    /\ UNCHANGED << exec, files, branch >>
    /\ UNCHANGED buildVars

CompleteStep(n) ==
    /\ exec = "Executing"
    /\ status[n] = "Executing"
    /\ status' = [status EXCEPT ![n] = "Succeeded"]
    /\ \E content \in FileContents :
         files' = [k \in DOMAIN files |->
                     IF k[1] = n THEN content ELSE files[k]]
    /\ UNCHANGED << exec, branch >>
    /\ UNCHANGED buildVars

FailStep(n) ==
    /\ exec = "Executing"
    /\ status[n] = "Executing"
    /\ status' = [status EXCEPT ![n] = "Failed"]
    /\ exec' = "Failed"
    /\ UNCHANGED << files, branch >>
    /\ UNCHANGED buildVars

\* Pending -> Evaluating
EnterCondition(n) ==
    /\ exec = "Executing"
    /\ IsCondition(StepNamed(n))
    /\ status[n] = "Pending"
    /\ RefsDone(StepNamed(n))
    /\ status' = [status EXCEPT ![n] = "Evaluating"]
    /\ UNCHANGED << exec, files, branch >>
    /\ UNCHANGED buildVars

\* a faulty variant: a value that cannot be extracted counts as a false condition
EvaluateConditionCoerced(n) ==
    /\ exec = "Executing"
    /\ status[n] = "Evaluating"
    /\ LET c == StepNamed(n)
           conds == SeqToSet(c.conditions)
           holds == \A cond \in conds :
                       CanExtract(cond.left, files) /\ ConditionHolds(cond, files)
           skipped == IF holds THEN Names(ElseSteps(c)) ELSE Names(IfSteps(c))
       IN  /\ branch' = [branch EXCEPT ![n] = IF holds THEN "if" ELSE "else"]
           /\ status' = [m \in DOMAIN status |->
                           IF m = n THEN "BranchSelected"
                           ELSE IF m \in skipped THEN "Skipped"
                           ELSE status[m]]
           /\ UNCHANGED exec
    /\ UNCHANGED files
    /\ UNCHANGED buildVars

\* Evaluating -> Branch-Selected, or Extraction failure
EvaluateCondition(n) ==
    /\ exec = "Executing"
    /\ status[n] = "Evaluating"
    /\ LET c == StepNamed(n)
           conds == SeqToSet(c.conditions)
       IN  IF \E cond \in conds : ~CanExtract(cond.left, files)
           THEN /\ status' = [status EXCEPT ![n] = "ExtractionFailed"]
                /\ exec' = "Failed"
                /\ UNCHANGED branch
           ELSE LET holds == \A cond \in conds : ConditionHolds(cond, files)
                    skipped == IF holds THEN Names(ElseSteps(c)) ELSE Names(IfSteps(c))
                IN  /\ branch' = [branch EXCEPT ![n] = IF holds THEN "if" ELSE "else"]
                    /\ status' = [m \in DOMAIN status |->
                                    IF m = n THEN "BranchSelected"
                                    ELSE IF m \in skipped THEN "Skipped"
                                    ELSE status[m]]
                    /\ UNCHANGED exec
    /\ UNCHANGED files
    /\ UNCHANGED buildVars

\* nothing is left to run
Finish ==
    /\ exec = "Executing"
    /\ \A n \in DOMAIN status : status[n] \in {"Succeeded", "Skipped", "BranchSelected"}
    /\ exec' = "Succeeded"
    /\ UNCHANGED << status, files, branch >>
    /\ UNCHANGED buildVars

Execute ==
    \/ Submit
    \/ \E n \in DOMAIN status : StartStep(n)
    \/ \E n \in DOMAIN status : CompleteStep(n)
    \/ \E n \in DOMAIN status : FailStep(n)
    \/ \E n \in DOMAIN status : EnterCondition(n)
    \/ \E n \in DOMAIN status : EvaluateCondition(n)
    \/ Finish

Next == Build \/ Execute

Spec == Init /\ [][Next]_vars

\* a backend in which every step that can start does, and every started
\* step completes or fails
FairSpec ==
    /\ Spec
    /\ WF_vars(\E n \in DOMAIN status : StartStep(n))
    /\ WF_vars(\E n \in DOMAIN status : CompleteStep(n) \/ FailStep(n))
    /\ WF_vars(\E n \in DOMAIN status : EnterCondition(n))
    /\ WF_vars(\E n \in DOMAIN status : EvaluateCondition(n))
    /\ WF_vars(Finish)

\* ========================================================================
\* Properties
\* ========================================================================
Process == "PreprocessAbaloneData"

Train == "TrainAbaloneModel"

Evaluate == "EvaluateAbaloneModel"

Conditional == "CheckMSEAbaloneEvaluation"

Register == "RegisterAbaloneModel"

Report == <<Evaluate, "AbaloneEvaluationReport">>

Returned == pc = "returned"

Submitted == exec # "NotSubmitted"

Started(n) == status[n] \in {"Executing", "Succeeded", "Failed"}

Completed(n) == status[n] = "Succeeded"

TypeOf(p, n) == (CHOOSE s \in AllSteps(p) : s.name = n).type

\* C1: the returned graph has exactly the 4 top-level nodes Process, Train,
\* Evaluate, Conditional, exactly the 3 data edges Process->Train,
\* Process->Evaluate, Train->Evaluate, exactly the condition edge
\* Evaluate->Conditional, and Register is no top-level node and is in no
\* branch but the Conditional's if-branch.
C1_GraphShape ==
    Returned =>
        /\ Len(result.steps) = 4
        /\ Names(TopLevelSteps(result)) = {Process, Train, Evaluate, Conditional}
        /\ TypeOf(result, Process) = "Processing"
        /\ TypeOf(result, Train) = "Training"
        /\ TypeOf(result, Evaluate) = "Processing"
        /\ TypeOf(result, Conditional) = "Condition"
        /\ DataEdges(result) = {<<Process, Train>>, <<Process, Evaluate>>,
                                <<Train, Evaluate>>}
        /\ ConditionEdges(result) = {<<Evaluate, Conditional>>}
        /\ Register \notin Names(TopLevelSteps(result))
        /\ \A c \in ConditionSteps(result) :
              /\ Register \notin Names(ElseSteps(c))
              /\ c.name = Conditional => Names(IfSteps(c)) = {Register}
              /\ c.name # Conditional => Register \notin Names(IfSteps(c))

C1_Witness ==
    /\ Returned
    /\ Len(result.steps) = 4
    /\ Register \in Names(BranchSteps(result))

\* C2: in every execution no node starts before the steps it references
\* have completed: Train after Process, Evaluate after Train and Process,
\* the Conditional leaves Pending (and reads the report) after Evaluate,
\* Register after Train and after the Conditional selected its branch.
C2_DependencyOrder ==
    Submitted =>
        /\ Started(Train) => Completed(Process)
        /\ Started(Evaluate) => Completed(Train) /\ Completed(Process)
        /\ status[Conditional] # "Pending" => Completed(Evaluate)
        /\ Started(Register) =>
              /\ Completed(Train)
              /\ status[Conditional] = "BranchSelected"
              /\ branch[Conditional] = "if"

C2_Witness ==
    /\ Submitted
    /\ Started(Register)
    /\ Started(Train)
    /\ Started(Evaluate)

\* what holds of a state in which the Conditional has selected its branch
C3_BranchState ==
    (Submitted /\ status[Conditional] = "BranchSelected") =>
        /\ branch[Conditional] \in {"if", "else"}
        /\ branch[Conditional] = "if" =>
              status[Register] \in {"Pending", "Executing", "Succeeded", "Failed"}
        /\ branch[Conditional] = "else" =>
              /\ status[Register] = "Skipped"
              /\ \A n \in DOMAIN status : status[n] # "Executing"
              /\ exec \in {"Executing", "Succeeded"}

\* the selection and a skip are never undone by a step of the execution
C3_BranchStep ==
    (Submitted /\ status[Conditional] = "BranchSelected") =>
        /\ status'[Conditional] = "BranchSelected"
        /\ branch'[Conditional] = branch[Conditional]
        /\ status[Register] = "Skipped" => status'[Register] = "Skipped"

\* C3: once the Conditional has evaluated, exactly one branch is selected
\* and stays selected; on the if-branch Register is eligible and never
\* skipped; on the (empty) else-branch Register is skipped, nothing runs,
\* and Register never executes in any later state.
C3_ExactlyOneBranch == []C3_BranchState /\ [][C3_BranchStep]_vars

C3_Witness ==
    /\ Submitted
    /\ branch[Conditional] = "else"
    /\ status[Register] = "Skipped"
    /\ exec = "Succeeded"

\* the value the report holds at the path of the condition
MseOf(f) == (CHOOSE e \in f.json : e[1] = "regression_metrics.mse.value")[2]

\* C4: the branch is decided by mse <= 6.0 on the value at
\* regression_metrics.mse.value of the report: exactly 6.0 and everything
\* below select the if-branch, everything above (6.0000001) the else-branch.
C4_InclusiveThreshold ==
    (Submitted /\ status[Conditional] = "BranchSelected") =>
        /\ MseOf(files[Report]) <= 60000000 => branch[Conditional] = "if"
        /\ MseOf(files[Report]) >= 60000001 => branch[Conditional] = "else"

C4_Witness ==
    /\ Submitted
    /\ status[Conditional] = "BranchSelected"
    /\ MseOf(files[Report]) = 60000000
    /\ branch[Conditional] = "if"

\* the report was never produced, or holds nothing at the path
ReportUnreadable ==
    \/ ~files[Report].produced
    \/ ~\E e \in files[Report].json : e[1] = "regression_metrics.mse.value"

\* C5: when the report was never produced, or holds no value at
\* regression_metrics.mse.value, the Conditional ends in the extraction
\* failure state: no branch is selected, Register neither runs nor is
\* skipped, the execution fails; a false evaluation is a different state.
C5_ExtractionFailure ==
    Submitted =>
        /\ (ReportUnreadable /\ status[Conditional] \notin {"Pending", "Evaluating"}) =>
              /\ status[Conditional] = "ExtractionFailed"
              /\ branch[Conditional] = "none"
              /\ status[Register] = "Pending"
              /\ exec = "Failed"
        /\ status[Conditional] = "ExtractionFailed" =>
              ReportUnreadable /\ branch[Conditional] = "none"
        /\ branch[Conditional] = "else" =>
              ~ReportUnreadable /\ status[Conditional] = "BranchSelected"

C5_Witness ==
    /\ Submitted
    /\ status[Conditional] = "ExtractionFailed"
    /\ files[Report].produced
    /\ files[Report].json = {}

\* the default image of the region
DefaultImage ==
    [framework |-> "xgboost", region |-> region, version |-> "1.0-1",
     py_version |-> "py3", instance_type |-> "ml.m5.xlarge"]

ImageOf(n) == (CHOOSE s \in AllSteps(result) : s.name = n).image_uri

WithoutImage(s) ==
    IF IsCondition(s)
    THEN [s EXCEPT !.if_steps = [i \in 1..Len(s.if_steps) |->
                                    [s.if_steps[i] EXCEPT !.image_uri = NoImage]],
                   !.else_steps = [i \in 1..Len(s.else_steps) |->
                                    [s.else_steps[i] EXCEPT !.image_uri = NoImage]]]
    ELSE [s EXCEPT !.image_uri = NoImage]

WithoutImages(p) ==
    [p EXCEPT !.steps = [i \in 1..Len(p.steps) |-> WithoutImage(p.steps[i])]]

\* the graph of the same region and role when no image is looked at
GraphOfBuild ==
    LET sp == PreprocessAbaloneData(NoImage, role, region)
        st == TrainAbaloneModel(NoImage, role, sp)
        se == EvaluateAbaloneModel(NoImage, role, sp, st)
        sr == RegisterAbaloneModel(NoImage, st, model_metrics_of(se))
        sc == CheckMSEAbaloneEvaluation(se, sr)
    IN  AbalonePipeline(region, PipelineSteps(sp, st, se, sr, sc))

\* C6: a lookup that is not found is replaced by the one default image
\* (xgboost, 1.0-1, py3, ml.m5.xlarge, the region), and whatever the three
\* lookups gave, the returned graph is the same but for the images.
C6_FallbackKeepsShape ==
    Returned =>
        /\ lookup["processing"] = "ResourceNotFound" => ImageOf(Process) = DefaultImage
        /\ lookup["training"] = "ResourceNotFound" =>
              ImageOf(Train) = DefaultImage /\ ImageOf(Evaluate) = DefaultImage
        /\ lookup["inference"] = "ResourceNotFound" => ImageOf(Register) = DefaultImage
        /\ WithoutImages(result) = GraphOfBuild

C6_Witness ==
    /\ Returned
    /\ lookup["processing"] = "ResourceNotFound"
    /\ lookup["training"] = "Found"
    /\ lookup["inference"] = "ResourceNotFound"

\* C7: the conditional step is well-formed: its branches share no step, no
\* branch step is a direct or transitive dependency of the conditional
\* step, and no step outside the branches reads an output of a branch step.
C7_WellFormedBranches ==
    Returned =>
        \A c \in ConditionSteps(result) :
            /\ Names(IfSteps(c)) \cap Names(ElseSteps(c)) = {}
            /\ Names(IfSteps(c) \cup ElseSteps(c)) \cap TransitiveDeps(result, c) = {}
            /\ \A s \in TopLevelSteps(result) :
                  StepRefs(s) \cap (Names(BranchSteps(result))
                                      \ Names(TopLevelSteps(result))) = {}

C7_Witness ==
    /\ Returned
    /\ \E c \in ConditionSteps(result) :
          /\ IfSteps(c) # {}
          /\ Evaluate \in TransitiveDeps(result, c)
          /\ Process \in TransitiveDeps(result, c)

\* C8: construction is all-or-nothing: when any stage raises, the caller
\* holds no graph; a graph the caller holds has all four top-level nodes.
C8_AllOrNothing ==
    /\ pc = "raised" => result = NoPipeline
    /\ pc \notin {"returned", "raised"} => result = NoPipeline
    /\ result # NoPipeline =>
          /\ pc = "returned"
          /\ Names(TopLevelSteps(result)) = {Process, Train, Evaluate, Conditional}

C8_Witness ==
    /\ pc = "raised"
    /\ step_eval # NoStep
    /\ result = NoPipeline

\* the names in the parameter list of a pipeline
ParameterNames(p) == {p.parameters[i].name : i \in 1..Len(p.parameters)}

\* C9: every Parameter a step binds to is in the parameter list of the
\* pipeline, and the names in that list are pairwise distinct.
C9_ParametersExposed ==
    Returned =>
        /\ \A s \in AllSteps(result) : StepParams(s) \subseteq ParameterNames(result)
        /\ \A i, j \in 1..Len(result.parameters) :
              result.parameters[i].name = result.parameters[j].name => i = j

C9_Witness ==
    /\ Returned
    /\ \E s \in AllSteps(result) : "InputDataUrl" \in StepParams(s)
    /\ \E s \in AllSteps(result) : "ModelApprovalStatus" \in StepParams(s)

\* the three ways an execution ends
Ended ==
    \/ /\ exec = "Succeeded"
       /\ branch[Conditional] = "if"
       /\ status[Register] = "Succeeded"
    \/ /\ exec = "Succeeded"
       /\ branch[Conditional] = "else"
       /\ status[Register] = "Skipped"
    \/ /\ exec = "Failed"
       /\ \E n \in DOMAIN status : status[n] \in {"Failed", "ExtractionFailed"}

\* C10: under a fair backend every execution of the graph ends: with
\* Register completed on the if-branch, stopped with Register skipped on
\* the else-branch, or failed with the failing step or extraction reported.
C10_Terminates == (exec = "Executing") ~> Ended

C10_Witness ==
    /\ exec = "Succeeded"
    /\ branch[Conditional] = "if"
    /\ status[Register] = "Succeeded"

====
